---- MODULE Spec2Model ----
(***************************************************************************)
(* Model of ShadowHunter.py: the per-platform checkers, worker_check,      *)
(* scan_username, scan_email, main and the SIGINT handler.                 *)
(*                                                                         *)
(* Strings that the code only compares or copies are TLA+ strings.         *)
(* Identifiers (usernames, emails) are sequences of one-character strings, *)
(* because the code inspects their characters.  A page body is a sequence  *)
(* of text fragments; str.lower() and the `in` substring test are given by *)
(* the tables Lower and Sub over those fragments.                          *)
(***************************************************************************)
EXTENDS Integers, Sequences, FiniteSets, TLC

\* ---------------------------------------------------------------- bounds
MaxBody == 2        \* fragments in a page body
MaxUserLen == 2     \* characters in a username handed to a checker
MaxPlatforms == 3   \* entries in the --platforms list
MaxEmail == 5       \* characters in an email address

\* ------------------------------------------------------------ text model
\* str.lower() on the fragments and titles the model uses.
Lower(s) ==
  CASE s = "Not Found" -> "not found"
    [] s = "No such user." -> "no such user."
    [] s = "Sorry, this page isn't available." -> "sorry, this page isn't available."
    [] s = "User deleted" -> "user deleted"
    [] s = "Page Not Found" -> "page not found"
    [] s = "Just a moment" -> "just a moment"
    [] s = "Projects" -> "projects"
    [] s = "Account suspended" -> "account suspended"
    [] s = "Followers" -> "followers"
    [] s = "\"channelId\"" -> "\"channelid\""
    [] s = "subscriberCountText" -> "subscribercounttext"
    [] s = "window._sharedData" -> "window._shareddata"
    [] s = "window.__INIT_PROPS" -> "window.__init_props"
    [] s = "\"userInfo\"" -> "\"userinfo\""
    [] s = "Couldn't find this account" -> "couldn't find this account"
    [] s = "Error" -> "error"
    [] s = "Profile" -> "profile"
    [] s = "Profile Not Found" -> "profile not found"
    [] s = "Sign in" -> "sign in"
    [] s = "<title>Bob Smith</title>" -> "<title>bob smith</title>"
    [] s = "<title>Bob - Reddit</title>" -> "<title>bob - reddit</title>"
    [] s = "<title>Bob - YouTube</title>" -> "<title>bob - youtube</title>"
    [] s = "<title>Bob - Instagram</title>" -> "<title>bob - instagram</title>"
    [] s = "<title>Sign In | LinkedIn</title>" -> "<title>sign in | linkedin</title>"
    [] s = "Bob Smith" -> "bob smith"
    [] s = "Bob - Reddit" -> "bob - reddit"
    [] s = "Bob - YouTube" -> "bob - youtube"
    [] s = "Bob - Instagram" -> "bob - instagram"
    [] s = "Sign In | LinkedIn" -> "sign in | linkedin"
    [] OTHER -> s

\* <<s, p>> : p is a proper substring of s.
Sub ==
  { <<"user not found", "not found">>,
    <<"page not found", "not found">>,
    <<"profile not found", "not found">>,
    <<"no such user.", "no such user">>,
    <<"sorry, this page isn't available.", "sorry, this page isn't available">>,
    <<"sorry, this page isn't available.", "page isn't available">>,
    <<"sorry, this page isn't available.", "sorry, this page">>,
    <<"\"channelid\"", "channelid">>,
    <<"\"channelId\"", "channelId">>,
    <<"<title>bob - reddit</title>", "reddit">>,
    <<"<title>bob - youtube</title>", "youtube">>,
    <<"<title>bob - instagram</title>", "instagram">>,
    <<"<title>sign in | linkedin</title>", "sign in">>,
    <<"<title>sign in | linkedin</title>", "linkedin">>,
    <<"<title>Sign In | LinkedIn</title>", "LinkedIn">>,
    <<"bob - reddit", "reddit">>,
    <<"bob - youtube", "youtube">>,
    <<"bob - instagram", "instagram">>,
    <<"sign in | linkedin", "sign in">>,
    <<"sign in | linkedin", "linkedin">> }

\* p in s, for strings
Has(s, p) == s = p \/ <<s, p>> \in Sub

\* p in txt, for a text made of fragments
In(p, txt) == \E i \in DOMAIN txt : Has(txt[i], p)

\* r.text.lower()
LowerText(body) == [i \in DOMAIN body |-> Lower(body[i])]

\* text of a <title> element, "none" for a fragment that is not one
TitleText(f) ==
  CASE f = "<title>Bob Smith</title>" -> "Bob Smith"
    [] f = "<title>bob</title>" -> "bob"
    [] f = "<title> </title>" -> " "
    [] f = "<title>Bob - Reddit</title>" -> "Bob - Reddit"
    [] f = "<title>Bob - YouTube</title>" -> "Bob - YouTube"
    [] f = "<title>Bob - Instagram</title>" -> "Bob - Instagram"
    [] f = "<title>Sign In | LinkedIn</title>" -> "Sign In | LinkedIn"
    [] OTHER -> "none"

\* str.strip()
Strip(t) == IF t = " " THEN "" ELSE t

\* len(title.split())
Words(t) ==
  CASE t = "" -> 0
    [] t = "bob" -> 1
    [] t = "Bob Smith" -> 2
    [] t = "Bob - Reddit" -> 3
    [] t = "Bob - YouTube" -> 3
    [] t = "Bob - Instagram" -> 3
    [] t = "Sign In | LinkedIn" -> 4
    [] OTHER -> 1

TitleIdx(body) == {i \in DOMAIN body : TitleText(body[i]) # "none"}

First(S) == CHOOSE i \in S : \A j \in S : i <= j

\* _title_from_html: stripped text of the first title, "" if there is none
\* or the document does not parse
_title_from_html(body) ==
  IF TitleIdx(body) = {} THEN "" ELSE Strip(TitleText(body[First(TitleIdx(body))]))

\* ------------------------------------------------------- records, results
\* Python True / False / None
Bool(b) == IF b THEN "True" ELSE "False"

\* a dict is a set of <<key, value>> items; the only non-dict evidence value
\* the code can build is the tuple (True, {})
Dict(items) == [kind |-> "dict", items |-> items]
EmptyDict == Dict({})
TupleTrueEmpty == [kind |-> "tuple", items |-> {}]

\* str.format(u=username)
Format(template, username) == [tpl |-> template, u |-> username]

\* what a checker call amounts to: the pair it returns, or an exception,
\* and the requests it sent through the session
Ret(exists, meta, reqs) == [raised |-> FALSE, exists |-> exists, meta |-> meta, reqs |-> reqs]
Raise(reqs) == [raised |-> TRUE, exists |-> "False", meta |-> EmptyDict, reqs |-> reqs]

\* session.get outcomes: a response, a requests.RequestException ("failure")
\* or any other exception ("fault")
Failure == [kind |-> "failure", status |-> 0, body |-> <<>>, json |-> "none"]
Fault == [kind |-> "fault", status |-> 0, body |-> <<>>, json |-> "none"]
Response(status, body, json) == [kind |-> "ok", status |-> status, body |-> body, json |-> json]

\* ------------------------------------------------------------- checkers
\* variant: the title rule only fires on status 200
check_generic_title200(r, url_template, username) ==
  LET url == Format(url_template, username)
      txt == LowerText(r.body)
      title == _title_from_html(r.body)
  IN  IF r.kind = "failure" THEN Ret("False", EmptyDict, <<url>>)
      ELSE IF r.kind = "fault" THEN Raise(<<url>>)
      ELSE IF r.status = 404 THEN Ret("False", EmptyDict, <<url>>)
      ELSE IF \E p \in {"not found", "page not found", "user not found", "no such user",
                        "sorry, this page"} : In(p, txt)
        THEN Ret("False", EmptyDict, <<url>>)
      ELSE IF title # "" /\ r.status = 200
        THEN Ret("True", Dict({<<"title", title>>, <<"source", "generic-title">>}), <<url>>)
      ELSE Ret(Bool(r.status = 200), EmptyDict, <<url>>)

NegGeneric == {"not found", "page not found", "user not found", "no such user", "sorry, this page"}

check_generic(r, url_template, username) ==
  LET url == Format(url_template, username)
      txt == LowerText(r.body)
      title == _title_from_html(r.body)
  IN  IF r.kind = "failure" THEN Ret("False", EmptyDict, <<url>>)
      ELSE IF r.kind = "fault" THEN Raise(<<url>>)
      ELSE IF r.status = 404 THEN Ret("False", EmptyDict, <<url>>)
      ELSE IF \E p \in NegGeneric : In(p, txt) THEN Ret("False", EmptyDict, <<url>>)
      ELSE IF title # ""
        THEN Ret("True", Dict({<<"title", title>>, <<"source", "generic-title">>}), <<url>>)
      ELSE Ret(Bool(r.status = 200), EmptyDict, <<url>>)

\* prepend the requests already sent to those of a fallback call
After(reqs, res) == [res EXCEPT !.reqs = reqs \o res.reqs]

check_github(rs, username) ==
  LET api == Format("https://api.github.com/users/{u}", username)
      r == rs[1]
      fallback == After(<<api>>, check_generic(rs[2], "https://github.com/{u}", username))
  IN  IF r.kind # "ok" THEN fallback
      ELSE IF r.status = 200
        THEN IF r.json \in {"user", "nodata"}
               THEN Ret("True", Dict({<<"source", "api.github.com">>, <<"name", r.json>>, <<"bio", r.json>>}), <<api>>)
               ELSE fallback
      ELSE IF r.status = 404 THEN Ret("False", EmptyDict, <<api>>)
      ELSE fallback

check_reddit(rs, username) ==
  LET about == Format("https://www.reddit.com/user/{u}/about.json", username)
      profile == Format("https://www.reddit.com/user/{u}/", username)
      r == rs[1]
      r2 == rs[2]
      txt == LowerText(r2.body)
      title == _title_from_html(r2.body)
      both == <<about, profile>>
      html == IF r2.kind # "ok" THEN Ret("False", EmptyDict, both)
              ELSE IF r2.status = 404 THEN Ret("False", EmptyDict, both)
              ELSE IF \/ In("sorry, nobody on reddit goes by that name", txt)
                      \/ In("account suspended", txt)
                      \/ In("this account may have been banned", txt)
                THEN Ret("False", EmptyDict, both)
              ELSE IF title # "" /\ ~Has(Lower(title), "reddit")
                THEN Ret("True", Dict({<<"source", "reddit-html-title">>, <<"title", title>>}), both)
              ELSE Ret("True", EmptyDict, both)
  IN  IF r.kind # "ok" THEN html
      ELSE IF r.status = 200 /\ r.json = "user"
        THEN Ret("True", Dict({<<"source", "reddit-about-json">>, <<"data", "data">>}), <<about>>)
      ELSE IF r.status \in {403, 404, 410} THEN Ret("False", EmptyDict, <<about>>)
      ELSE html

\* str.isdigit(): non-empty and every character a digit
Digits == {"0", "1"}
\* variant: the empty string counts as digits
isdigit_vacuous(username) == \A i \in DOMAIN username : username[i] \in Digits

isdigit(username) == Len(username) > 0 /\ \A i \in DOMAIN username : username[i] \in Digits

check_stackoverflow(rs, username) ==
  LET url == Format("https://stackoverflow.com/users/{u}", username)
      r == rs[1]
      txt == LowerText(r.body)
      title == _title_from_html(r.body)
  IN  IF ~isdigit(username) THEN Ret("False", EmptyDict, <<>>)
      ELSE IF r.kind # "ok" THEN Ret("False", EmptyDict, <<url>>)
      ELSE IF r.status = 404 THEN Ret("False", EmptyDict, <<url>>)
      ELSE IF \E p \in {"user deleted", "page not found", "profile not found"} : In(p, txt)
        THEN Ret("False", EmptyDict, <<url>>)
      \* return True, ({...} if title else (True, {}))
      ELSE Ret("True",
               IF title # "" THEN Dict({<<"source", "stackoverflow-html">>, <<"title", title>>})
                             ELSE TupleTrueEmpty,
               <<url>>)

check_hackernews(rs, username) ==
  LET url == Format("https://news.ycombinator.com/user?id={u}", username)
      r == rs[1]
      txt == LowerText(r.body)
  IN  IF r.kind # "ok" THEN Ret("False", EmptyDict, <<url>>)
      ELSE IF r.status = 404 THEN Ret("False", EmptyDict, <<url>>)
      ELSE IF In("no such user.", txt) \/ In("no such user", txt) THEN Ret("False", EmptyDict, <<url>>)
      ELSE Ret("True", Dict({<<"source", "hackernews-html">>}), <<url>>)

check_gitlab(rs, username) ==
  LET url == Format("https://gitlab.com/{u}", username)
      r == rs[1]
      txt == LowerText(r.body)
      title == _title_from_html(r.body)
  IN  IF r.kind # "ok" THEN Ret("False", EmptyDict, <<url>>)
      ELSE IF r.status = 404 THEN Ret("False", EmptyDict, <<url>>)
      ELSE IF \E neg \in {"page not found", "just a moment", "404"} : In(neg, txt)
        THEN Ret("False", EmptyDict, <<url>>)
      ELSE IF In("profile-header", txt) \/ In("user-show", txt) \/ In("projects", txt) \/ In("activity", txt)
        THEN Ret("True", Dict({<<"source", "gitlab-html-marker">>, <<"title", title>>}), <<url>>)
      ELSE Ret("False", EmptyDict, <<url>>)

check_x(rs, username) ==
  LET url == Format("https://x.com/{u}", username)
      r == rs[1]
      txt == LowerText(r.body)
  IN  IF r.kind # "ok" THEN Ret("False", EmptyDict, <<url>>)
      ELSE IF r.status = 404 THEN Ret("False", EmptyDict, <<url>>)
      ELSE IF \E neg \in {"account suspended", "this account doesn`t exist",
                          "this account doesn't exist", "user not found"} : In(neg, txt)
        THEN Ret("False", EmptyDict, <<url>>)
      ELSE IF In("property=\"og:description\"", r.body) \/ In("name=\"twitter:description\"", r.body)
        THEN Ret("True", Dict({<<"source", "x-og">>}), <<url>>)
      ELSE IF In("followers", txt) \/ In("following", txt) \/ In("tweets", txt)
        THEN Ret("True", Dict({<<"source", "x-text-hint">>}), <<url>>)
      ELSE Ret("False", EmptyDict, <<url>>)

check_youtube(rs, username) ==
  LET url == Format("https://www.youtube.com/@{u}", username)
      r == rs[1]
      txt == LowerText(r.body)
      title == _title_from_html(r.body)
  IN  IF r.kind # "ok" THEN Ret("False", EmptyDict, <<url>>)
      ELSE IF r.status = 404 THEN Ret("False", EmptyDict, <<url>>)
      ELSE IF In("channel does not exist", txt) \/ In("no longer available", txt)
        THEN Ret("False", EmptyDict, <<url>>)
      ELSE IF In("channelid", LowerText(txt)) \/ In("subscribercounttext", LowerText(txt))
        THEN Ret("True", Dict({<<"source", "youtube-html">>}), <<url>>)
      ELSE IF title # "" /\ ~Has(Lower(title), "youtube")
        THEN Ret("True", Dict({<<"source", "youtube-title">>, <<"title", title>>}), <<url>>)
      ELSE Ret("False", EmptyDict, <<url>>)

check_instagram(rs, username) ==
  LET url == Format("https://www.instagram.com/{u}/", username)
      r == rs[1]
      txt == LowerText(r.body)
      title == _title_from_html(r.body)
  IN  IF r.kind # "ok" THEN Ret("False", EmptyDict, <<url>>)
      ELSE IF r.status = 404 THEN Ret("False", EmptyDict, <<url>>)
      ELSE IF In("sorry, this page isn't available", txt) \/ In("page isn't available", txt)
        THEN Ret("False", EmptyDict, <<url>>)
      ELSE IF In("\"is_private\":", txt) \/ In("\"graphql\"", txt) \/ In("window._sharedData", txt)
        THEN Ret("True", Dict({<<"source", "instagram-embedded-json">>, <<"title", title>>}), <<url>>)
      ELSE IF title # "" /\ ~Has(Lower(title), "instagram")
        THEN Ret("True", Dict({<<"source", "instagram-title">>, <<"title", title>>}), <<url>>)
      ELSE Ret("False", EmptyDict, <<url>>)

check_tiktok(rs, username) ==
  LET url == Format("https://www.tiktok.com/@{u}", username)
      r == rs[1]
      txt == LowerText(r.body)
      title == _title_from_html(r.body)
  IN  IF r.kind # "ok" THEN Ret("False", EmptyDict, <<url>>)
      ELSE IF r.status = 404 THEN Ret("False", EmptyDict, <<url>>)
      ELSE IF In("page not found", txt) \/ In("user not found", txt) \/ In("couldn't find this account", txt)
        THEN Ret("False", EmptyDict, <<url>>)
      ELSE IF In("window.__INIT_PROPS", txt) \/ In("\"userInfo\"", txt)
        THEN Ret("True", Dict({<<"source", "tiktok-html-json">>}), <<url>>)
      ELSE IF title # "" THEN Ret("True", Dict({<<"title", title>>}), <<url>>)
      ELSE Ret("False", EmptyDict, <<url>>)

check_steam(rs, username) ==
  LET xml == Format("https://steamcommunity.com/id/{u}/?xml=1", username)
      page == Format("https://steamcommunity.com/id/{u}", username)
      r == rs[1]
      r2 == rs[2]
      txt == LowerText(r2.body)
  IN  IF r.kind # "ok" THEN Ret("False", EmptyDict, <<xml>>)
      ELSE IF r.status = 200 /\ In("<error>", r.body) THEN Ret("False", EmptyDict, <<xml>>)
      ELSE IF r.status = 200 THEN Ret("True", Dict({<<"source", "steam-xml">>}), <<xml>>)
      ELSE IF r2.kind # "ok" THEN Ret("False", EmptyDict, <<xml, page>>)
      ELSE IF r2.status = 200
        THEN IF In("error", txt) /\ In("profile", txt)
               THEN Ret("False", EmptyDict, <<xml, page>>)
               ELSE Ret("True", Dict({<<"source", "steam-html">>}), <<xml, page>>)
      ELSE Ret("False", EmptyDict, <<xml, page>>)

check_linkedin(rs, username) ==
  LET url == Format("https://www.linkedin.com/in/{u}/", username)
      r == rs[1]
      txt == LowerText(r.body)
      title == _title_from_html(r.body)
  IN  IF r.kind # "ok" THEN Ret("False", EmptyDict, <<url>>)
      ELSE IF r.status = 404 THEN Ret("False", EmptyDict, <<url>>)
      ELSE IF In("profile not found", txt) \/ In("profile not available", txt)
        THEN Ret("False", EmptyDict, <<url>>)
      ELSE IF In("sign in", txt) /\ Has(Lower(title), "linkedin") THEN Ret("False", EmptyDict, <<url>>)
      ELSE IF title # "" /\ ~Has(Lower(title), "linkedin") /\ Words(title) >= 2
        THEN Ret("True", Dict({<<"source", "linkedin-title">>, <<"title", title>>}), <<url>>)
      ELSE IF In("property=\"og:title\"", r.body) \/ In("name=\"og:title\"", r.body)
        THEN Ret("True", Dict({<<"source", "linkedin-og">>, <<"title", title>>}), <<url>>)
      ELSE Ret("False", EmptyDict, <<url>>)

\* ------------------------------------------------------------- registry
GenericPlatforms == {"medium", "devto", "pinterest", "soundcloud", "vimeo", "keybase", "facebook", "kaggle"}
BespokePlatforms == {"github", "gitlab", "reddit", "stack_overflow", "tiktok", "youtube", "steam",
                     "instagram", "x", "hackernews", "linkedin"}
Registered == GenericPlatforms \cup BespokePlatforms

\* GENERIC_TEMPLATES.get(platform, "{u}")
GENERIC_TEMPLATES(platform) ==
  CASE platform = "github" -> "https://github.com/{u}"
    [] platform = "gitlab" -> "https://gitlab.com/{u}"
    [] platform = "reddit" -> "https://www.reddit.com/user/{u}/"
    [] platform = "stack_overflow" -> "https://stackoverflow.com/users/story/{u}"
    [] platform = "tiktok" -> "https://www.tiktok.com/@{u}"
    [] platform = "youtube" -> "https://www.youtube.com/@{u}"
    [] platform = "medium" -> "https://medium.com/@{u}"
    [] platform = "devto" -> "https://dev.to/{u}"
    [] platform = "pinterest" -> "https://www.pinterest.com/{u}/"
    [] platform = "soundcloud" -> "https://soundcloud.com/{u}"
    [] platform = "vimeo" -> "https://vimeo.com/{u}"
    [] platform = "steam" -> "https://steamcommunity.com/id/{u}"
    [] platform = "keybase" -> "https://keybase.io/{u}"
    [] platform = "instagram" -> "https://www.instagram.com/{u}/"
    [] platform = "facebook" -> "https://www.facebook.com/{u}"
    [] platform = "x" -> "https://x.com/{u}"
    [] platform = "kaggle" -> "https://www.kaggle.com/{u}"
    [] platform = "hackernews" -> "https://news.ycombinator.com/user?id={u}"
    [] platform = "linkedin" -> "https://www.linkedin.com/in/{u}/"
    [] OTHER -> "{u}"

\* PLATFORM_CHECKERS[platform](session, username), for a registered platform
PLATFORM_CHECKERS(platform, rs, username) ==
  CASE platform = "github" -> check_github(rs, username)
    [] platform = "gitlab" -> check_gitlab(rs, username)
    [] platform = "reddit" -> check_reddit(rs, username)
    [] platform = "stack_overflow" -> check_stackoverflow(rs, username)
    [] platform = "tiktok" -> check_tiktok(rs, username)
    [] platform = "youtube" -> check_youtube(rs, username)
    [] platform = "steam" -> check_steam(rs, username)
    [] platform = "instagram" -> check_instagram(rs, username)
    [] platform = "x" -> check_x(rs, username)
    [] platform = "hackernews" -> check_hackernews(rs, username)
    [] platform = "linkedin" -> check_linkedin(rs, username)
    [] OTHER -> check_generic(rs[1], GENERIC_TEMPLATES(platform), username)

\* the call worker_check makes inside its try block
CallChecker(platform, rs, username) ==
  IF platform \in Registered
    THEN PLATFORM_CHECKERS(platform, rs, username)
    ELSE check_generic(rs[1], GENERIC_TEMPLATES(platform), username)

\* variant: a skipped platform is reported like a confirmed miss
SkippedRecord_absent(platform, username) ==
  [platform |-> platform, url |-> Format(GENERIC_TEMPLATES(platform), username),
   exists |-> "False", meta |-> EmptyDict, skipped |-> TRUE]

\* the record worker_check builds when STOP is set
SkippedRecord(platform, username) ==
  [platform |-> platform, url |-> Format(GENERIC_TEMPLATES(platform), username),
   exists |-> "None", meta |-> EmptyDict, skipped |-> TRUE]

\* the record worker_check builds from the checker's result, or from the
\* exception the checker raised
ProbeRecord(platform, username, res) ==
  [platform |-> platform, url |-> Format(GENERIC_TEMPLATES(platform), username),
   exists |-> IF res.raised THEN "False" ELSE res.exists,
   meta |-> IF res.raised THEN Dict({<<"error", "str(e)">>}) ELSE res.meta,
   skipped |-> FALSE]

\* ------------------------------------------- what the network may answer
SeqsUpTo(V, n) == UNION {[1..k -> V] : k \in 0..n}

Pages(V) == {Response(st, b, "none") : st \in {200, 403, 404}, b \in SeqsUpTo(V, MaxBody)}
              \cup {Failure, Fault}

Api(statuses) == {Response(st, <<>>, j) : st \in statuses, j \in {"user", "nodata", "list", "none"}}
                   \cup {Failure, Fault}

GenericVocab == {"Not Found", "No such user.", "Sorry, this page isn't available.", "hello",
                 "<title>Bob Smith</title>", "<title> </title>"}

Vocab(platform) ==
  CASE platform = "reddit" ->
         {"sorry, nobody on reddit goes by that name", "Account suspended",
          "this account may have been banned", "<title>Bob - Reddit</title>",
          "<title>Bob Smith</title>", "hello"}
    [] platform = "stack_overflow" ->
         {"User deleted", "Page Not Found", "profile not found", "<title>Bob Smith</title>",
          "<title> </title>", "hello"}
    [] platform = "hackernews" -> {"No such user.", "hello", "<title>Bob Smith</title>"}
    [] platform = "gitlab" ->
         {"Page Not Found", "Just a moment", "404", "profile-header", "user-show", "Projects",
          "activity", "hello", "<title>Bob Smith</title>"}
    [] platform = "x" ->
         {"Account suspended", "this account doesn`t exist", "this account doesn't exist",
          "user not found", "property=\"og:description\"", "name=\"twitter:description\"",
          "Followers", "following", "tweets", "hello"}
    [] platform = "youtube" ->
         {"channel does not exist", "no longer available", "\"channelId\"", "subscriberCountText",
          "<title>Bob - YouTube</title>", "<title>Bob Smith</title>", "hello"}
    [] platform = "instagram" ->
         {"Sorry, this page isn't available.", "\"is_private\":", "\"graphql\"",
          "window._sharedData", "<title>Bob - Instagram</title>", "<title>Bob Smith</title>", "hello"}
    [] platform = "tiktok" ->
         {"Page Not Found", "user not found", "Couldn't find this account", "window.__INIT_PROPS",
          "\"userInfo\"", "<title>Bob Smith</title>", "<title> </title>", "hello"}
    [] platform = "linkedin" ->
         {"Profile Not Found", "profile not available", "Sign in",
          "<title>Sign In | LinkedIn</title>", "<title>Bob Smith</title>", "<title>bob</title>",
          "property=\"og:title\"", "name=\"og:title\"", "hello"}
    [] OTHER -> GenericVocab

\* answers to the first and to the second request of a platform's checker
Resp1(platform) ==
  CASE platform = "github" -> Api({200, 404, 500})
    [] platform = "reddit" -> Api({200, 403, 404, 410, 500})
    [] platform = "steam" ->
         {Response(st, b, "none") : st \in {200, 404, 500}, b \in SeqsUpTo({"<error>", "<profile>"}, MaxBody)}
           \cup {Failure, Fault}
    [] OTHER -> Pages(Vocab(platform))

Resp2(platform) ==
  CASE platform = "github" -> Pages(GenericVocab)
    [] platform = "reddit" -> Pages(Vocab("reddit"))
    [] platform = "steam" -> Pages({"Error", "Profile", "hello"})
    [] OTHER -> {Failure}

UserChars == {"1", "a"}
UserNames == SeqsUpTo(UserChars, MaxUserLen)

\* --------------------------------------------------- candidate derivation
EmailChars == {"a", "b", ".", "-", "_", "+", "@"}
Delims == {".", "-", "_", "+"}

\* code points, which is what sorted() compares
Ord(c) ==
  CASE c = "+" -> 43 [] c = "-" -> 45 [] c = "." -> 46 [] c = "0" -> 48 [] c = "1" -> 49
    [] c = "@" -> 64 [] c = "_" -> 95 [] c = "a" -> 97 [] c = "b" -> 98 [] OTHER -> 120

\* a < b for Python strings
Less(a, b) ==
  \/ Len(a) < Len(b) /\ \A i \in 1..Len(a) : a[i] = b[i]
  \/ \E k \in 1..Len(a) : /\ k <= Len(b)
                          /\ \A i \in 1..(k-1) : a[i] = b[i]
                          /\ Ord(a[k]) < Ord(b[k])

RECURSIVE sorted(_)
sorted(S) ==
  IF S = {} THEN <<>>
  ELSE LET m == CHOOSE x \in S : \A y \in S \ {x} : Less(x, y)
       IN  <<m>> \o sorted(S \ {m})

\* s[:n]
Take(s, n) == SubSeq(s, 1, IF Len(s) < n THEN Len(s) ELSE n)

\* email.split("@", 1)[0]
LocalPart(email) ==
  LET at == {i \in DOMAIN email : email[i] = "@"}
  IN  IF at = {} THEN email ELSE SubSeq(email, 1, First(at) - 1)

\* re.split(r"[.\-_+]", local): empty pieces are kept
RECURSIVE re_split(_)
re_split(local) ==
  LET d == {i \in DOMAIN local : local[i] \in Delims}
  IN  IF d = {} THEN <<local>>
      ELSE <<SubSeq(local, 1, First(d) - 1)>> \o re_split(SubSeq(local, First(d) + 1, Len(local)))

\* variant: "last" is the second piece instead of the last one
Candidates_second(email, also_derive) ==
  LET local == LocalPart(email)
      parts == re_split(local)
      first == parts[1]
      last == parts[2]
      derived == IF Len(parts) >= 2 /\ first # <<>> /\ last # <<>>
                   THEN {first \o last, first \o <<"_">> \o last, first \o <<".">> \o last,
                         <<first[1]>> \o last}
                   ELSE {}
  IN  IF also_derive THEN Take(sorted({local} \cup derived), 8) ELSE <<>>

\* the candidates block of scan_email
Candidates(email, also_derive) ==
  LET local == LocalPart(email)
      parts == re_split(local)
      first == parts[1]
      last == parts[Len(parts)]
      derived == IF Len(parts) >= 2 /\ first # <<>> /\ last # <<>>
                   THEN {first \o last, first \o <<"_">> \o last, first \o <<".">> \o last,
                         <<first[1]>> \o last}
                   ELSE {}
  IN  IF also_derive THEN Take(sorted({local} \cup derived), 8) ELSE <<>>

\* =================================================================== state
VARIABLES
  STOP,        \* the global cancellation flag
  pc,          \* where main (and the call it is in) stands
  args,        \* parsed command line, the options read during the scan
  opts,        \* parsed command line, the options read after the scan:
               \* --only-found, --summary, --csv; drawn when control gets there
  net,         \* what the sites answer during this run
  platforms,   \* main: the platform list after the twitch filter
  results,     \* main: the report dict
  exc,         \* the exception propagating out of main's try block, or "none"
  se_out,      \* scan_email: out
  se_i,        \* scan_email: index of the candidate being scanned
  su_caller,   \* scan_username: who called it
  su_user,     \* scan_username: username
  su_results,  \* scan_username: results
  su_i,        \* scan_username: index of the platform being checked
  wc_out,      \* worker_check: out
  json_file,   \* what write_json wrote
  csv_file,    \* what the csv writer wrote
  produced,    \* history: records built from a checker call, in call order
  su_trace,    \* history: per entry of su_results, what worker_check did
  late_probes, \* history: checker calls made while STOP was already set
  pr_in,       \* checker call under test: platform, username, responses
  pr_done,     \* checker call under test: has been made
  pr_res,      \* checker call under test: its result
  pr_log,      \* requests sent through the session
  d_email,     \* derivation under test: the email
  d_done,      \* derivation under test: has been made
  d_cands      \* derivation under test: the candidates

main_vars == <<STOP, pc, args, opts, net, platforms, results, exc, se_out, se_i, su_caller, su_user,
               su_results, su_i, wc_out, json_file, csv_file, produced, su_trace, late_probes>>
probe_vars == <<pr_in, pr_done, pr_res, pr_log>>
derive_vars == <<d_email, d_done, d_cands>>
vars == <<main_vars, probe_vars, derive_vars>>

NoRecord == [platform |-> "", url |-> Format("", <<>>), exists |-> "None", meta |-> EmptyDict,
             skipped |-> FALSE]
NoGravatar == [urls |-> FALSE, profile |-> FALSE]
NoEmailScan == [email |-> <<>>, gravatar |-> NoGravatar, username_candidates |-> <<>>,
                platform_hits |-> <<>>]
\* results as main builds it before the try block: no hits, no email_scan
NoResults == [has_hits |-> FALSE, hits |-> <<>>, found |-> <<>>,
              has_email_scan |-> FALSE, email_scan |-> NoEmailScan]
NoOpts == [only_found |-> FALSE, summary |-> FALSE, csv |-> FALSE]
Options == [only_found : BOOLEAN, summary : BOOLEAN, csv : BOOLEAN]
NoFile == [written |-> FALSE, content |-> NoResults]
NoCsv == [written |-> FALSE, rows |-> <<>>]

ProbeIdle ==
  /\ pr_in = [platform |-> "", username |-> <<>>, rs |-> <<Failure, Failure>>]
  /\ pr_done = FALSE
  /\ pr_res = Ret("False", EmptyDict, <<>>)
  /\ pr_log = <<>>

DeriveIdle == d_email = <<>> /\ d_done = FALSE /\ d_cands = <<>>

MainIdle ==
  /\ STOP = FALSE /\ pc = "idle"
  /\ args = [target |-> <<>>, type |-> "auto", platforms |-> <<>>, delay |-> 0,
             also_derive |-> FALSE]
  /\ opts = NoOpts
  /\ net = Failure
  /\ platforms = <<>> /\ results = NoResults /\ exc = "none"
  /\ se_out = NoEmailScan /\ se_i = 1
  /\ su_caller = "main" /\ su_user = <<>> /\ su_results = <<>> /\ su_i = 1
  /\ wc_out = NoRecord /\ json_file = NoFile /\ csv_file = NoCsv
  /\ produced = <<>> /\ su_trace = <<>> /\ late_probes = 0

\* ================================================= checker call under test
ProbePlatforms == Registered \cup {"nope"}

InitProbe ==
  /\ \E p \in ProbePlatforms, u \in UserNames :
       \E r1 \in Resp1(p), r2 \in Resp2(p) :
         pr_in = [platform |-> p, username |-> u, rs |-> <<r1, r2>>]
  /\ pr_done = FALSE
  /\ pr_res = Ret("False", EmptyDict, <<>>)
  /\ pr_log = <<>>
  /\ MainIdle /\ DeriveIdle

\* worker_check's call of the platform's checker
Probe ==
  /\ ~pr_done
  /\ pr_done' = TRUE
  /\ pr_res' = CallChecker(pr_in.platform, pr_in.rs, pr_in.username)
  /\ pr_log' = pr_log \o pr_res'.reqs
  /\ UNCHANGED <<pr_in, main_vars, derive_vars>>

NextProbe == Probe
SpecProbe == InitProbe /\ [][NextProbe]_vars

\* ==================================================== derivation under test
Emails == SeqsUpTo(EmailChars, MaxEmail)

InitDerive ==
  /\ d_email \in Emails
  /\ d_done = FALSE /\ d_cands = <<>>
  /\ MainIdle /\ ProbeIdle

\* scan_email's candidate block with --also-derive
Derive ==
  /\ ~d_done
  /\ d_done' = TRUE
  /\ d_cands' = Candidates(d_email, TRUE)
  /\ UNCHANGED <<d_email, main_vars, probe_vars>>

NextDerive == Derive
SpecDerive == InitDerive /\ [][NextDerive]_vars

\* ========================================================== main, the scan
OrchPlatforms == {"medium", "stack_overflow", "twitch"}
Targets == {<<"1">>, <<"a">>, <<"a", "@", "b">>, <<"1", ".", "1", "@", "b">>}
Delays == {-1, 0}

\* one page with a title, one without
NetAnswers ==
  {Response(200, <<"<title>Bob Smith</title>">>, "none"), Response(200, <<"hello">>, "none"),
   Failure, Fault}

ElemsOf(sq) == {sq[i] : i \in DOMAIN sq}

\* variant: keeps whatever is not a confirmed miss
RECURSIVE SelectPositives_notfalse(_)
SelectPositives_notfalse(hits) ==
  IF hits = <<>> THEN <<>>
  ELSE (IF Head(hits).exists # "False" THEN <<Head(hits)>> ELSE <<>>)
         \o SelectPositives_notfalse(Tail(hits))

\* [h for h in hits if h.get("exists") is True]
RECURSIVE SelectPositives(_)
SelectPositives(hits) ==
  IF hits = <<>> THEN <<>>
  ELSE (IF Head(hits).exists = "True" THEN <<Head(hits)>> ELSE <<>>) \o SelectPositives(Tail(hits))

\* (h.get("meta") or {}).get(key, default): a non-empty tuple is truthy and
\* has no .get, so the expression raises AttributeError
MetaFaults(h) == h.meta.kind # "dict"
MetaField(h, key, default) ==
  IF \E it \in h.meta.items : it[1] = key
    THEN (CHOOSE it \in h.meta.items : it[1] = key)[2]
    ELSE default

Row(mode, subject, h) ==
  [mode |-> mode, subject |-> subject, platform |-> h.platform, url |-> h.url,
   exists |-> h.exists, title |-> MetaField(h, "title", ""), source |-> MetaField(h, "source", "")]

RECURSIVE HitRows(_, _, _)
HitRows(mode, subject, hits) ==
  IF hits = <<>> THEN <<>>
  ELSE <<Row(mode, subject, Head(hits))>> \o HitRows(mode, subject, Tail(hits))

RECURSIVE DerivedRows(_)
DerivedRows(platform_hits) ==
  IF platform_hits = <<>> THEN <<>>
  ELSE HitRows("email-derived", Head(platform_hits).u, Head(platform_hits).hits)
         \o DerivedRows(Tail(platform_hits))

GravatarRow(res) ==
  [mode |-> "email", subject |-> res.email_scan.email, platform |-> "gravatar",
   url |-> Format("https://www.gravatar.com/avatar/{h}?d=404", res.email_scan.email),
   exists |-> Bool(res.email_scan.gravatar.profile), title |-> "", source |-> "gravatar"]

AllHits(res) ==
  IF res.has_hits THEN ElemsOf(res.hits)
  ELSE IF res.has_email_scan
    THEN UNION {ElemsOf(res.email_scan.platform_hits[i].hits) : i \in DOMAIN res.email_scan.platform_hits}
  ELSE {}

flatten_csv_faults(res) == \E h \in AllHits(res) : MetaFaults(h)

flatten_csv(res) ==
  IF res.has_hits THEN HitRows("username", args.target, res.hits)
  ELSE IF res.has_email_scan
    THEN <<GravatarRow(res)>> \o DerivedRows(res.email_scan.platform_hits)
  ELSE <<>>

RECURSIVE OnlyFoundRows(_)
OnlyFoundRows(rows) ==
  IF rows = <<>> THEN <<>>
  ELSE (IF Head(rows).exists = "True" \/ Head(rows).platform = "gravatar" THEN <<Head(rows)>> ELSE <<>>)
         \o OnlyFoundRows(Tail(rows))

\* [p for p in platforms if p != "twitch"]
RECURSIVE WithoutTwitch(_)
WithoutTwitch(ps) ==
  IF ps = <<>> THEN <<>>
  ELSE (IF Head(ps) = "twitch" THEN <<>> ELSE <<Head(ps)>>) \o WithoutTwitch(Tail(ps))

\* the only_found filter of email mode: candidates without a positive go
RECURSIVE OnlyFoundHits(_)
OnlyFoundHits(platform_hits) ==
  IF platform_hits = <<>> THEN <<>>
  ELSE LET pos == SelectPositives(Head(platform_hits).hits)
       IN  (IF pos # <<>> THEN <<[u |-> Head(platform_hits).u, hits |-> pos]>> ELSE <<>>)
             \o OnlyFoundHits(Tail(platform_hits))

mode_email ==
  IF args.type = "auto" THEN \E i \in DOMAIN args.target : args.target[i] = "@"
  ELSE args.type = "email"

InitMain ==
  /\ STOP = FALSE
  /\ pc = "main"
  /\ args \in [target : Targets, type : {"auto", "email"},
               platforms : SeqsUpTo(OrchPlatforms, MaxPlatforms), delay : Delays,
               also_derive : BOOLEAN]
  /\ opts = NoOpts
  /\ net \in NetAnswers
  /\ platforms = <<>> /\ results = NoResults /\ exc = "none"
  /\ se_out = NoEmailScan /\ se_i = 1
  /\ su_caller = "main" /\ su_user = <<>> /\ su_results = <<>> /\ su_i = 1
  /\ wc_out = NoRecord /\ json_file = NoFile /\ csv_file = NoCsv
  /\ produced = <<>> /\ su_trace = <<>> /\ late_probes = 0
  /\ ProbeIdle /\ DeriveIdle

\* _sigint: may run between any two steps of the main thread
_sigint ==
  /\ pc # "done" /\ ~STOP
  /\ STOP' = TRUE
  /\ UNCHANGED <<probe_vars, derive_vars, pc, args, opts, net, platforms, results, exc, se_out, se_i, su_caller, su_user,
                 su_results, su_i, wc_out, json_file, csv_file, produced, late_probes, su_trace>>

\* entering scan_username(username)
CallScan(caller, username) ==
  /\ su_caller' = caller /\ su_user' = username
  /\ su_results' = <<>> /\ su_i' = 1 /\ su_trace' = <<>>
  /\ pc' = "su_for"

\* main up to the call of scan_email or scan_username
main_begin ==
  /\ pc = "main"
  /\ platforms' = WithoutTwitch(args.platforms)
  /\ IF mode_email
       THEN /\ pc' = "se_gravatar"
            /\ UNCHANGED <<su_caller, su_user, su_results, su_i, su_trace>>
       ELSE CallScan("main", args.target)
  /\ UNCHANGED <<probe_vars, derive_vars, STOP, args, opts, net, results, exc, se_out, se_i, wc_out, json_file, csv_file, produced, late_probes>>

\* scan_email up to its loop: the gravatar lookup and the candidates
scan_email_begin ==
  /\ pc = "se_gravatar"
  /\ \E profile \in BOOLEAN :
       se_out' = [email |-> args.target, gravatar |-> [urls |-> TRUE, profile |-> profile],
                  username_candidates |-> Candidates(args.target, args.also_derive),
                  platform_hits |-> <<>>]
  /\ se_i' = 1
  /\ pc' = "se_for"
  /\ UNCHANGED <<probe_vars, derive_vars, STOP, args, opts, net, platforms, results, exc, su_caller, su_user, su_results, su_i,
                 wc_out, json_file, csv_file, produced, late_probes, su_trace>>

\* scan_email: for u in candidates
scan_email_for ==
  /\ pc = "se_for"
  /\ IF se_i <= Len(se_out.username_candidates)
       THEN CallScan("scan_email", se_out.username_candidates[se_i])
       ELSE /\ pc' = "main_email"
            /\ UNCHANGED <<su_caller, su_user, su_results, su_i, su_trace>>
  /\ UNCHANGED <<probe_vars, derive_vars, STOP, args, opts, net, platforms, results, exc, se_out, se_i, wc_out, json_file,
                 csv_file, produced, late_probes>>

\* variant: the outer loop goes on after cancellation
scan_email_store_nobreak ==
  /\ pc = "se_store"
  /\ se_out' = [se_out EXCEPT !.platform_hits = Append(@, [u |-> su_user, hits |-> su_results])]
  /\ pc' = "se_for" /\ se_i' = se_i + 1
  /\ UNCHANGED <<probe_vars, derive_vars, STOP, args, opts, net, platforms, results, exc,
                 su_caller, su_user, su_results, su_i, wc_out, json_file, csv_file, produced,
                 late_probes, su_trace>>

\* scan_email: store the candidate's hits; if STOP: break
scan_email_store ==
  /\ pc = "se_store"
  /\ se_out' = [se_out EXCEPT !.platform_hits = Append(@, [u |-> su_user, hits |-> su_results])]
  /\ IF STOP THEN pc' = "main_email" /\ se_i' = se_i
             ELSE pc' = "se_for" /\ se_i' = se_i + 1
  /\ UNCHANGED <<probe_vars, derive_vars, STOP, args, opts, net, platforms, results, exc, su_caller, su_user, su_results, su_i,
                 wc_out, json_file, csv_file, produced, late_probes, su_trace>>

\* where scan_username returns to
Return == IF su_caller = "main" THEN "main_hits" ELSE "se_store"

\* scan_username: for p in platforms
scan_username_for ==
  /\ pc = "su_for"
  /\ pc' = IF su_i <= Len(platforms) THEN "wc_check" ELSE Return
  /\ UNCHANGED <<probe_vars, derive_vars, STOP, args, opts, net, platforms, results, exc, se_out, se_i, su_caller, su_user,
                 su_results, su_i, wc_out, json_file, csv_file, produced, late_probes, su_trace>>

\* worker_check: if STOP: return the skipped record
worker_check_stop ==
  /\ pc = "wc_check"
  /\ IF STOP
       THEN /\ wc_out' = SkippedRecord(platforms[su_i], su_user)
            /\ su_trace' = Append(su_trace, [stop_seen |-> TRUE, probed |-> FALSE])
            /\ pc' = "su_append"
       ELSE /\ pc' = "wc_try"
            /\ UNCHANGED <<wc_out, su_trace>>
  /\ UNCHANGED <<probe_vars, derive_vars, STOP, args, opts, net, platforms, results, exc, se_out, se_i, su_caller, su_user,
                 su_results, su_i, json_file, csv_file, produced, late_probes>>

\* worker_check: the try block
worker_check_try ==
  /\ pc = "wc_try"
  /\ LET p == platforms[su_i]
         res == CallChecker(p, <<net, Failure>>, su_user)
     IN  /\ wc_out' = ProbeRecord(p, su_user, res)
         /\ produced' = Append(produced, wc_out')
  /\ su_trace' = Append(su_trace, [stop_seen |-> FALSE, probed |-> TRUE])
  /\ late_probes' = IF STOP THEN late_probes + 1 ELSE late_probes
  /\ pc' = "wc_sleep"
  /\ UNCHANGED <<probe_vars, derive_vars, STOP, args, opts, net, platforms, results, exc, se_out, se_i, su_caller, su_user,
                 su_results, su_i, json_file, csv_file>>

\* worker_check: time.sleep(delay), which raises ValueError for a negative
\* delay; nothing between here and main's finally catches it
worker_check_sleep ==
  /\ pc = "wc_sleep"
  /\ IF args.delay < 0
       THEN exc' = "ValueError" /\ pc' = "finally" /\ opts' \in Options
       ELSE exc' = exc /\ pc' = "su_append" /\ opts' = opts
  /\ UNCHANGED <<probe_vars, derive_vars, STOP, args, net, platforms, results, se_out, se_i, su_caller, su_user,
                 su_results, su_i, wc_out, json_file, csv_file, produced, late_probes, su_trace>>

\* variant: the new record goes to the front of the list
scan_username_append_front ==
  /\ pc = "su_append"
  /\ su_results' = <<wc_out>> \o su_results
  /\ IF STOP THEN pc' = Return /\ su_i' = su_i
             ELSE pc' = "su_for" /\ su_i' = su_i + 1
  /\ UNCHANGED <<probe_vars, derive_vars, STOP, args, opts, net, platforms, results, exc, se_out,
                 se_i, su_caller, su_user, wc_out, json_file, csv_file, produced, late_probes, su_trace>>

\* scan_username: results.append(...); if STOP: break
scan_username_append ==
  /\ pc = "su_append"
  /\ su_results' = Append(su_results, wc_out)
  /\ IF STOP THEN pc' = Return /\ su_i' = su_i
             ELSE pc' = "su_for" /\ su_i' = su_i + 1
  /\ UNCHANGED <<probe_vars, derive_vars, STOP, args, opts, net, platforms, results, exc, se_out, se_i, su_caller, su_user,
                 wc_out, json_file, csv_file, produced, late_probes, su_trace>>

\* main, username mode, after scan_username returned
main_username ==
  /\ pc = "main_hits"
  /\ opts' \in Options
  /\ LET positives == SelectPositives(su_results)
     IN  /\ results' = [results EXCEPT !.has_hits = TRUE,
                                       !.hits = IF opts'.only_found THEN positives ELSE su_results,
                                       !.found = positives]
         /\ exc' = IF opts'.summary /\ \E i \in DOMAIN positives : MetaFaults(positives[i])
                     THEN "AttributeError" ELSE exc
  /\ pc' = "finally"
  /\ UNCHANGED <<probe_vars, derive_vars, STOP, args, net, platforms, se_out, se_i, su_caller, su_user, su_results, su_i,
                 wc_out, json_file, csv_file, produced, late_probes, su_trace>>

\* main, email mode, after scan_email returned
main_email ==
  /\ pc = "main_email"
  /\ opts' \in Options
  /\ results' = [results EXCEPT
                   !.has_email_scan = TRUE,
                   !.email_scan = IF opts'.only_found
                                    THEN [se_out EXCEPT !.email = <<>>,
                                                        !.platform_hits = OnlyFoundHits(@)]
                                    ELSE se_out]
  /\ pc' = "finally"
  /\ UNCHANGED <<probe_vars, derive_vars, STOP, args, net, platforms, exc, se_out, se_i, su_caller, su_user, su_results,
                 su_i, wc_out, json_file, csv_file, produced, late_probes, su_trace>>

\* main: the finally block
main_finally ==
  /\ pc = "finally"
  /\ json_file' = [written |-> TRUE, content |-> results]
  /\ IF ~opts.csv
       THEN csv_file' = csv_file /\ exc' = exc
       ELSE IF flatten_csv_faults(results)
         THEN csv_file' = csv_file /\ exc' = "AttributeError"
         ELSE /\ csv_file' = [written |-> TRUE,
                              rows |-> IF opts.only_found THEN OnlyFoundRows(flatten_csv(results))
                                                          ELSE flatten_csv(results)]
              /\ exc' = exc
  /\ pc' = "done"
  /\ UNCHANGED <<probe_vars, derive_vars, STOP, args, opts, net, platforms, results, se_out, se_i, su_caller, su_user,
                 su_results, su_i, wc_out, produced, late_probes, su_trace>>

Next ==
  \/ _sigint
  \/ main_begin
  \/ scan_email_begin
  \/ scan_email_for
  \/ scan_email_store
  \/ scan_username_for
  \/ worker_check_stop
  \/ worker_check_try
  \/ worker_check_sleep
  \/ scan_username_append
  \/ main_username
  \/ main_email
  \/ main_finally

Spec == InitMain /\ [][Next]_vars

\* ================================================================= claims
\* ---- helpers used only to state the claims
MetaHas(meta, key) == \E it \in meta.items : it[1] = key
MetaGet(meta, key) == (CHOOSE it \in meta.items : it[1] = key)[2]

\* ---- the scan
Returned == pc \in {"main_hits", "se_store"}    \* scan_username has just returned su_results
Names(hits) == [i \in DOMAIN hits |-> hits[i].platform]
Completed(r) == r.exists \in {"True", "False"} /\ ~r.skipped

\* C1: the platform names of the records of scan_username are a prefix of
\* the platform list, in input order, and the whole list when cancellation
\* was never signalled.
C1_PrefixInInputOrder ==
  /\ Len(su_results) <= Len(platforms)
  /\ Names(su_results) = SubSeq(platforms, 1, Len(su_results))
  /\ (Returned /\ ~STOP) => Names(su_results) = platforms

C1_Witness ==
  /\ Returned /\ STOP
  /\ Len(su_results) = 2 /\ Len(platforms) = 3
  /\ platforms[1] = platforms[2] /\ platforms[3] # platforms[1]

\* C2: what scan_username returns is some completed outcomes followed by the
\* result of one policy: a skipped record for every remaining platform, or
\* nothing at all.
LeadingCompleted(hits) ==
  CHOOSE c \in 0..Len(hits) :
    /\ \A i \in 1..c : Completed(hits[i])
    /\ (c < Len(hits) => ~Completed(hits[c+1]))
C2_OneCancellationPolicy ==
  Returned =>
    LET c == LeadingCompleted(su_results)
    IN  \/ Len(su_results) = c
        \/ /\ Len(su_results) = Len(platforms)
           /\ \A i \in (c+1)..Len(su_results) : su_results[i].skipped

\* C3: when main has ended, the JSON report is written and holds every
\* record a probe produced (stated for runs without --only-found, which
\* drops records on purpose).
C3_ReportHoldsEveryRecord ==
  (pc = "done" /\ ~opts.only_found) =>
    /\ json_file.written
    /\ \A i \in DOMAIN produced : produced[i] \in AllHits(json_file.content)

\* C4: worker_check returns a record with exists True, False or None and
\* never raises; a checker that raises gives an Absent record with the error
\* text.
C4_WorkerCheckNeverRaises ==
  /\ exc # "ValueError"
  /\ \A i \in DOMAIN produced :
       /\ produced[i].exists \in {"True", "False", "None"}
       /\ (net = Fault /\ produced[i].platform = "medium") =>
            (produced[i].exists = "False" /\ MetaHas(produced[i].meta, "error"))

\* C5: a record has exists None exactly when it is marked skipped, which is
\* exactly when worker_check saw STOP set and called no checker; a record
\* built from a checker call has exists True or False.
C5_UnknownIffSkipped ==
  /\ Len(su_trace) >= Len(su_results)
  /\ \A i \in DOMAIN su_results :
       /\ (su_results[i].exists = "None") <=> su_results[i].skipped
       /\ su_results[i].skipped <=> (su_trace[i].stop_seen /\ ~su_trace[i].probed)
       /\ su_trace[i].probed => su_results[i].exists \in {"True", "False"}
  /\ \A i \in DOMAIN produced : produced[i].exists \in {"True", "False"} /\ ~produced[i].skipped
  /\ \A h \in AllHits(json_file.content) : (h.exists = "None") <=> h.skipped

C5_Witness ==
  /\ pc = "done" /\ json_file.written /\ json_file.content.has_hits
  /\ Len(json_file.content.hits) = 2
  /\ json_file.content.hits[1].exists = "False" /\ ~json_file.content.hits[1].skipped
  /\ json_file.content.hits[2].exists = "None" /\ json_file.content.hits[2].skipped

\* C9: the evidence of every record is a mapping, so reading title or source
\* from it in the summary or in the CSV rows never faults.
C9_EvidenceIsMapping ==
  /\ \A i \in DOMAIN produced : produced[i].meta.kind = "dict"
  /\ exc # "AttributeError"

\* C6: for a registered platform, when every request of the probe ends in a
\* transport failure the outcome is Absent, the evidence notes the error and
\* nothing is raised.
C6_FailureNotedInEvidence ==
  (pr_done /\ pr_in.platform \in Registered
     /\ pr_res.reqs # <<>>
     /\ pr_in.rs[1] = Failure /\ pr_in.rs[2] = Failure)
  => (~pr_res.raised /\ pr_res.exists = "False" /\ pr_res.meta.kind = "dict"
        /\ MetaHas(pr_res.meta, "error"))

\* C7: check_generic follows the ordered list 404 -> Absent; negative phrase
\* -> Absent; non-empty title -> Present with the title and source
\* "generic-title", whatever the status; otherwise Present iff status 200.
ClaimedNegatives == {"not found", "user not found", "no such user", "sorry, this page"}
GenericCall == pr_done /\ pr_in.platform \in GenericPlatforms \cup {"nope"} /\ pr_in.rs[1].kind = "ok"
C7_GenericDecisionList ==
  GenericCall =>
    LET r == pr_in.rs[1]
        neg == \E i \in DOMAIN r.body : \E p \in ClaimedNegatives : Has(Lower(r.body[i]), p)
        titled == \E i \in DOMAIN r.body :
                    /\ TitleText(r.body[i]) \notin {"none", " "}
                    /\ \A j \in 1..(i-1) : TitleText(r.body[j]) = "none"
    IN  /\ ~pr_res.raised
        /\ r.status = 404 => pr_res.exists = "False"
        /\ (r.status # 404 /\ neg) => pr_res.exists = "False"
        /\ (r.status # 404 /\ ~neg /\ titled) =>
             /\ pr_res.exists = "True"
             /\ MetaHas(pr_res.meta, "title") /\ MetaGet(pr_res.meta, "title") # ""
             /\ MetaHas(pr_res.meta, "source") /\ MetaGet(pr_res.meta, "source") = "generic-title"
        /\ (r.status # 404 /\ ~neg /\ ~titled) => pr_res.exists = Bool(r.status = 200)

C7_Witness ==
  /\ GenericCall /\ pr_in.rs[1].status = 403
  /\ pr_res.exists = "True" /\ MetaHas(pr_res.meta, "source")

\* C10: check_stackoverflow returns Absent for every identifier that is not
\* all digits, the empty one included, and sends no request.
DigitChars == {"0", "1", "2", "3", "4", "5", "6", "7", "8", "9"}
NotAllDigits(u) == u = <<>> \/ \E i \in DOMAIN u : u[i] \notin DigitChars
C10_NonDigitNoRequest ==
  (pr_done /\ pr_in.platform = "stack_overflow" /\ NotAllDigits(pr_in.username))
  => (~pr_res.raised /\ pr_res.exists = "False" /\ pr_res.reqs = <<>> /\ pr_log = <<>>)

C10_Witness ==
  /\ pr_done /\ pr_in.platform = "stack_overflow" /\ pr_in.username = <<>>
  /\ pr_in.rs[1].kind = "ok" /\ pr_in.rs[1].status = 200
  /\ pr_res.exists = "False" /\ pr_log = <<>>

\* ---- C8
StrictlySorted(sq) == \A i \in 1..(Len(sq) - 1) : Less(sq[i], sq[i+1])
TextBeforeAt(email) ==
  CHOOSE l \in {SubSeq(email, 1, n) : n \in 0..Len(email)} :
    /\ \A i \in DOMAIN l : l[i] # "@"
    /\ (Len(l) < Len(email) => email[Len(l) + 1] = "@")
\* the pieces between delimiters, as <<from, to>> index pairs, empty ones too
Pieces(local) ==
  {<<a, b>> \in (1..(Len(local) + 1)) \X (0..Len(local)) :
     /\ b >= a - 1
     /\ \A i \in a..b : local[i] \notin Delims
     /\ (a = 1 \/ local[a-1] \in Delims)
     /\ (b = Len(local) \/ local[b+1] \in Delims)}
NonEmptyPieces(local) == {pc_ \in Pieces(local) : pc_[2] >= pc_[1]}
Piece(local, ab) == SubSeq(local, ab[1], ab[2])
Combos(first, last) ==
  {first \o last, first \o <<"_">> \o last, first \o <<".">> \o last, <<first[1]>> \o last}

\* C8 as stated: first and last are the first and the last NON-EMPTY part,
\* and the extra candidates exist as soon as there are two non-empty parts.
C8_FirstLastOfNonEmptyParts ==
  d_done =>
    LET local == TextBeforeAt(d_email)
        ne == NonEmptyPieces(local)
        firstp == CHOOSE x \in ne : \A y \in ne : x[1] <= y[1]
        lastp == CHOOSE x \in ne : \A y \in ne : x[1] >= y[1]
        expected == {local} \cup (IF Cardinality(ne) >= 2
                                    THEN Combos(Piece(local, firstp), Piece(local, lastp))
                                    ELSE {})
    IN  /\ ElemsOf(d_cands) = expected
        /\ StrictlySorted(d_cands) /\ Len(d_cands) <= 8

\* C8 amended: the split keeps empty pieces; the extra candidates exist when
\* there are at least two pieces and the first and the last piece, that is
\* the text before the first delimiter and the text after the last one, are
\* both non-empty.
C8_FirstLastOfAllParts ==
  d_done =>
    LET local == TextBeforeAt(d_email)
        ds == {i \in DOMAIN local : local[i] \in Delims}
        first == SubSeq(local, 1, First(ds) - 1)
        lastd == CHOOSE i \in ds : \A j \in ds : j <= i
        last == SubSeq(local, lastd + 1, Len(local))
        expected == {local} \cup (IF ds # {} /\ first # <<>> /\ last # <<>>
                                    THEN Combos(first, last) ELSE {})
    IN  /\ ElemsOf(d_cands) = expected
        /\ StrictlySorted(d_cands) /\ Len(d_cands) <= 8

C8_Witness ==
  /\ d_done /\ Len(d_cands) = 4
  /\ Cardinality(Pieces(TextBeforeAt(d_email))) = 3

\* ---- C11
\* positions of the Present records of a sequence, and the k-th of them
PresentAt(hits) == {i \in DOMAIN hits : hits[i].exists = "True"}
Kth(S, k) == CHOOSE i \in S : Cardinality({j \in S : j <= i}) = k
\* kept is exactly the Present records of hits, in their order
ExactlyPresent(kept, hits) ==
  /\ Len(kept) = Cardinality(PresentAt(hits))
  /\ \A k \in DOMAIN kept : kept[k] = hits[Kth(PresentAt(hits), k)]
\* positions of the candidates that have at least one Present record
WithPresent(platform_hits) == {i \in DOMAIN platform_hits : PresentAt(platform_hits[i].hits) # {}}

\* C11: with --only-found, the hit sequences in the written report are
\* exactly the collected Present records in their original order, in
\* username mode and in email mode; Absent and skipped records are gone and
\* no Present record is.
C11_OnlyFoundKeepsExactlyPresent ==
  (pc = "done" /\ opts.only_found) =>
    LET rep == json_file.content
        kept == rep.email_scan.platform_hits
        all == se_out.platform_hits
    IN  /\ rep.has_hits => ExactlyPresent(rep.hits, su_results)
        /\ rep.has_email_scan =>
             /\ Len(kept) = Cardinality(WithPresent(all))
             /\ \A k \in DOMAIN kept :
                  /\ kept[k].u = all[Kth(WithPresent(all), k)].u
                  /\ ExactlyPresent(kept[k].hits, all[Kth(WithPresent(all), k)].hits)
        /\ \A h \in AllHits(rep) : h.exists = "True"

C11_Witness ==
  /\ pc = "done" /\ opts.only_found /\ json_file.content.has_hits
  /\ Len(su_results) = 3 /\ Len(json_file.content.hits) = 1
  /\ su_results[1].exists = "False" /\ su_results[2].exists = "True"
  /\ su_results[3].exists = "None"

\* ---- C12
Keys(platform_hits) == [i \in DOMAIN platform_hits |-> platform_hits[i].u]

\* C12: scan_email scans the candidates in list order and none after the
\* flag is set: the keys of platform_hits are a prefix of
\* username_candidates, every candidate before the last scanned one has a
\* record for each of the N platforms, and at most one checker call starts
\* with the flag set in the whole run.
C12_CandidatesInOrderUntilStop ==
  LET ph == se_out.platform_hits
      cands == se_out.username_candidates
  IN  /\ Len(ph) <= Len(cands)
      /\ Keys(ph) = SubSeq(cands, 1, Len(ph))
      /\ \A i \in 1..(Len(ph) - 1) : Len(ph[i].hits) = Len(platforms)
      /\ (pc \in {"su_for", "wc_check", "wc_try", "wc_sleep", "su_append", "se_store"}
            /\ su_caller = "scan_email")
           => (su_user = cands[se_i] /\ Len(ph) = se_i - 1
                 /\ \A i \in DOMAIN ph : Len(ph[i].hits) = Len(platforms))
      /\ late_probes <= 1

C12_Witness ==
  /\ pc = "done" /\ STOP /\ late_probes = 1
  /\ Len(se_out.username_candidates) = 3 /\ Len(se_out.platform_hits) = 2
  /\ Len(platforms) = 3
  /\ Len(se_out.platform_hits[1].hits) = 3 /\ Len(se_out.platform_hits[2].hits) = 2

\* ---- C13
TiktokPage ==
  /\ pr_done /\ pr_in.platform = "tiktok"
  /\ pr_in.rs[1].kind = "ok" /\ pr_in.rs[1].status # 404
  /\ ~\E i \in DOMAIN pr_in.rs[1].body :
        \E p \in {"page not found", "user not found", "couldn't find this account"} :
          Has(Lower(pr_in.rs[1].body[i]), p)

\* C13: on a non-404 tiktok page without a negative phrase, a
\* window.__INIT_PROPS or "userInfo" marker gives Present even without a
\* title; without a marker the result is Present iff the page has a
\* non-empty title.
C13_TiktokMarkerMeansPresent ==
  TiktokPage =>
    LET body == pr_in.rs[1].body
        marker == \E i \in DOMAIN body : body[i] \in {"window.__INIT_PROPS", "\"userInfo\""}
        titled == \E i \in DOMAIN body :
                    /\ TitleText(body[i]) \notin {"none", " "}
                    /\ \A j \in 1..(i-1) : TitleText(body[j]) = "none"
    IN  /\ marker => pr_res.exists = "True"
        /\ ~marker => pr_res.exists = Bool(titled)

====
